---- MODULE Spec2Model ----
(***************************************************************************)
(* NumPyMathSolver: the LangGraph workflow of src/main.py.                 *)
(*                                                                         *)
(* A text is a sequence of one-character strings, so that the string       *)
(* operations of the source (upper, strip, in, the fenced-block regex,     *)
(* f-string concatenation) are computed character by character.            *)
(***************************************************************************)
EXTENDS Integers, Sequences, FiniteSets, TLC

----------------------------------------------------------------------------
(* Bounds of the model.                                                    *)

\* number of graph invocations (questions) in one process
MaxRuns == 2
\* segments in a classification response of the model gateway
MaxClsSegs == 2
\* segments in a verification response of the model gateway
MaxVerSegs == 2
\* statements in a code body returned by the model gateway
MaxStmts == 1
\* segments in a response text given to extract_code on its own
MaxExtractSegs == 4

----------------------------------------------------------------------------
(* Text literals of the source.                                            *)

\* the grave accent character, written as a name
Backtick == "backtick"

T_YES == <<"Y", "E", "S">>
T_APPROVED == <<"A", "P", "P", "R", "O", "V", "E", "D">>
T_FenceOpen == <<Backtick, Backtick, Backtick, "p", "y", "t", "h", "o", "n", "\n">>
T_FenceClose == <<"\n", Backtick, Backtick, Backtick>>
T_Refusal == <<"I", "'", "m", " ", "s", "o", "r", "r", "y", ",", " ", "I", " ", "o", "n", "l", "y", " ", "a", "n", "s", "w", "e", "r", " ", "c", "o", "d", "i", "n", "g", " ", "q", "u", "e", "s", "t", "i", "o", "n", "s", ".">>
T_FinalCodeOk == <<"F", "i", "n", "a", "l", " ", "C", "o", "d", "e", ":", "\n", "\n", Backtick, Backtick, Backtick, "\n">>
T_FinalCodeOkEnd == <<"\n", Backtick, Backtick, Backtick, "\n", "\n">>
T_PrintedOutput == <<"P", "r", "i", "n", "t", "e", "d", " ", "O", "u", "t", "p", "u", "t", ":", "\n">>
T_ExecutionError == <<"\n", "E", "x", "e", "c", "u", "t", "i", "o", "n", " ", "E", "r", "r", "o", "r", ":", " ">>
T_StackTraceFb == <<"\n", "S", "t", "a", "c", "k", " ", "T", "r", "a", "c", "e", ":", "\n">>
T_FinalCodeErr == <<"F", "i", "n", "a", "l", " ", "C", "o", "d", "e", ":", "\n">>
T_ErrorInExecution == <<"E", "r", "r", "o", "r", " ", "i", "n", " ", "e", "x", "e", "c", "u", "t", "i", "o", "n", ":", " ">>
T_StackTrace == <<"S", "t", "a", "c", "k", " ", "T", "r", "a", "c", "e", ":", "\n">>
T_TracebackHead == <<"T", "r", "a", "c", "e", "b", "a", "c", "k", " ", "(", "m", "o", "s", "t", " ", "r", "e", "c", "e", "n", "t", " ", "c", "a", "l", "l", " ", "l", "a", "s", "t", ")", ":", "\n">>
S_print1 == <<"p", "r", "i", "n", "t", "(", "1", ")">>
S_assign == <<"r", "e", "s", "u", "l", "t", "=", "2">>
S_printResult == <<"p", "r", "i", "n", "t", "(", "r", "e", "s", "u", "l", "t", ")">>
S_npSet == <<"n", "p", ".", "a", "=", "1">>
S_npGet == <<"p", "r", "i", "n", "t", "(", "n", "p", ".", "a", ")">>
S_exit == <<"r", "a", "i", "s", "e", " ", "S", "y", "s", "t", "e", "m", "E", "x", "i", "t">>
S_input == <<"i", "n", "p", "u", "t", "(", ")">>
M_SyntaxErrorHead == <<"i", "n", "v", "a", "l", "i", "d", " ", "s", "y", "n", "t", "a", "x", " ", "(", "<", "s", "t", "r", "i", "n", "g", ">", ",", " ", "l", "i", "n", "e", " ">>
M_AttributeError == <<"m", "o", "d", "u", "l", "e", " ", "'", "n", "u", "m", "p", "y", "'", " ", "h", "a", "s", " ", "n", "o", " ", "a", "t", "t", "r", "i", "b", "u", "t", "e", " ", "'", "a", "'">>
M_EOFError == <<"E", "O", "F", " ", "w", "h", "e", "n", " ", "r", "e", "a", "d", "i", "n", "g", " ", "a", " ", "l", "i", "n", "e">>
N_NameError == <<"N", "a", "m", "e", "E", "r", "r", "o", "r">>
N_SyntaxError == <<"S", "y", "n", "t", "a", "x", "E", "r", "r", "o", "r">>
N_AttributeError == <<"A", "t", "t", "r", "i", "b", "u", "t", "e", "E", "r", "r", "o", "r">>
N_EOFError == <<"E", "O", "F", "E", "r", "r", "o", "r">>
M_SyntaxErrorShort == <<"i", "n", "v", "a", "l", "i", "d", " ", "s", "y", "n", "t", "a", "x">>
G_yes == <<"y", "e", "s">>
G_No == <<"N", "o">>
G_Y == <<"Y">>
G_es == <<"e", "s">>
G_approved == <<"a", "p", "p", "r", "o", "v", "e", "d">>
G_Not == <<"N", "o", "t", " ">>
G_prose == <<"o", "k", "!", "\n">>
G_FenceBare == <<Backtick, Backtick, Backtick, "\n">>

----------------------------------------------------------------------------
(* String operations.                                                      *)

LowerLetters == <<"a","b","c","d","e","f","g","h","i","j","k","l","m","n","o","p","q","r","s","t","u","v","w","x","y","z">>
UpperLetters == <<"A","B","C","D","E","F","G","H","I","J","K","L","M","N","O","P","Q","R","S","T","U","V","W","X","Y","Z">>

\* str.upper() on one character
UpperChar(c) ==
    IF \E i \in 1..26 : LowerLetters[i] = c
    THEN UpperLetters[CHOOSE i \in 1..26 : LowerLetters[i] = c]
    ELSE c

\* str.upper()
Upper(s) == [i \in 1..Len(s) |-> UpperChar(s[i])]

Whitespace == {" ", "\n", "\t", "\r"}

\* str.strip(): drop leading and trailing whitespace
Strip(s) ==
    LET keep == {i \in 1..Len(s) : s[i] \notin Whitespace}
    IN  IF keep = {} THEN <<>>
        ELSE LET lo == CHOOSE i \in keep : \A j \in keep : i <= j
                 hi == CHOOSE i \in keep : \A j \in keep : j <= i
             IN  SubSeq(s, lo, hi)

\* does s carry sub at position i (1-based) ?
MatchAt(sub, s, i) ==
    /\ i >= 1
    /\ i + Len(sub) - 1 <= Len(s)
    /\ SubSeq(s, i, i + Len(sub) - 1) = sub

\* the in operator on strings: sub in s
Contains(sub, s) == \E i \in 1..(Len(s) + 1) : MatchAt(sub, s, i)

\* concatenation of a sequence of texts (f-string / join without separator)
RECURSIVE Concat(_)
Concat(ts) == IF ts = <<>> THEN <<>> ELSE Head(ts) \o Concat(Tail(ts))

\* decimal digit of a small line number
Digit(n) == <<"0","1","2","3","4","5","6","7","8","9">>[n + 1]

----------------------------------------------------------------------------
(* Helpers: extract_code.                                                  *)

\* the matches of the fenced-block pattern (re.DOTALL) that start at i:
\* the closing fences at or after the end of the opening fence
FenceEnds(text, i) ==
    {j \in (i + Len(T_FenceOpen))..Len(text) : MatchAt(T_FenceClose, text, j)}

\* the start positions at which the pattern matches
FenceStarts(text) ==
    {i \in 1..Len(text) : MatchAt(T_FenceOpen, text, i) /\ FenceEnds(text, i) # {}}

Min(S) == CHOOSE x \in S : \A y \in S : x <= y

Max(S) == CHOOSE x \in S : \A y \in S : y <= x

\* a greedy group: the leftmost match taken up to the last closing fence
FirstBlockGreedy(text) ==
    LET i == Min(FenceStarts(text))
        j == Max(FenceEnds(text, i))
    IN  SubSeq(text, i + Len(T_FenceOpen), j - 1)

\* code_blocks[0]: leftmost match, lazy group up to the nearest closing fence
FirstBlock(text) ==
    LET i == Min(FenceStarts(text))
        j == Min(FenceEnds(text, i))
    IN  SubSeq(text, i + Len(T_FenceOpen), j - 1)

\* a fallback to the empty string when no block is found
extract_code_empty_fallback(text) ==
    IF FenceStarts(text) # {} THEN FirstBlock(text) ELSE <<>>

\* return code_blocks[0] if code_blocks else text
\* (a list holding one empty string is truthy: an empty block is returned as "")
extract_code(text) ==
    IF FenceStarts(text) # {} THEN FirstBlock(text) ELSE text


----------------------------------------------------------------------------
(* exec(code, loc): the statements generated code is made of, and what     *)
(* the interpreter does with them.                                         *)

\* names the statements refer to
V_np == <<"n", "p">>
V_result == <<"r", "e", "s", "u", "l", "t">>
V_builtins == <<"_", "_", "b", "u", "i", "l", "t", "i", "n", "s", "_", "_">>
V_print == <<"p", "r", "i", "n", "t">>
V_input == <<"i", "n", "p", "u", "t">>
V_SystemExit == <<"S", "y", "s", "t", "e", "m", "E", "x", "i", "t">>

\* values bound to names
O_numpy == <<"n", "u", "m", "p", "y">>
O_builtins == <<"b", "u", "i", "l", "t", "i", "n", "s">>
O_two == <<"2">>
O_one == <<"1">>

\* the statements a code body is made of
Statements == {S_print1, S_assign, S_printResult, S_npSet, S_npGet, S_exit, S_input}

\* names the builtins module supplies
BuiltinNames == {V_print, V_input, V_SystemExit}

\* code.split("\n")
RECURSIVE SplitLines(_)
SplitLines(s) ==
    IF \A i \in 1..Len(s) : s[i] # "\n" THEN <<s>>
    ELSE LET k == Min({i \in 1..Len(s) : s[i] = "\n"})
         IN  <<SubSeq(s, 1, k - 1)>> \o SplitLines(SubSeq(s, k + 1, Len(s)))

\* str(n) for a line number
RECURSIVE Decimal(_)
Decimal(n) == IF n < 10 THEN <<Digit(n)>> ELSE Decimal(n \div 10) \o <<Digit(n % 10)>>

\* loc = {"np": np}
InitialLoc == [v \in {V_np} |-> O_numpy]

\* exec() adds the builtins module to a globals dict that lacks it
WithBuiltins(loc) ==
    [v \in DOMAIN loc \cup {V_builtins} |-> IF v \in DOMAIN loc THEN loc[v] ELSE O_builtins]

\* name lookup: the globals dict, then the builtins it carries
Resolves(v, g) == v \in DOMAIN g \/ (V_builtins \in DOMAIN g /\ v \in BuiltinNames)

\* a raised exception; base = TRUE for one that is not a subclass of Exception
Raise(st, base, type, msg) ==
    [st EXCEPT !.status = IF base THEN "BaseException" ELSE "Exception",
               !.type = type, !.msg = msg]

NameErrorOf(st, v) ==
    Raise(st, FALSE, N_NameError, Concat(<< <<"n","a","m","e"," ","'">>, v, <<"'">>, <<" ","i","s"," ","n","o","t"," ","d","e","f","i","n","e","d">> >>))

\* one statement run in execution state st; stdin_line: a line is there to be read
RunStatement(line, st, stdin_line) ==
    LET g == st.globals IN
    CASE line = <<>> -> st
      [] line = S_print1 ->
            IF ~Resolves(V_print, g) THEN NameErrorOf(st, V_print)
            ELSE [st EXCEPT !.out = @ \o O_one \o <<"\n">>]
      [] line = S_assign ->
            [st EXCEPT !.globals = [v \in DOMAIN g \cup {V_result} |->
                                        IF v = V_result THEN O_two ELSE g[v]]]
      [] line = S_printResult ->
            IF ~Resolves(V_print, g) THEN NameErrorOf(st, V_print)
            ELSE IF ~Resolves(V_result, g) THEN NameErrorOf(st, V_result)
            ELSE [st EXCEPT !.out = @ \o g[V_result] \o <<"\n">>]
      [] line = S_npSet ->
            IF ~Resolves(V_np, g) THEN NameErrorOf(st, V_np)
            ELSE [st EXCEPT !.np = @ \cup {"a"}]
      [] line = S_npGet ->
            IF ~Resolves(V_print, g) THEN NameErrorOf(st, V_print)
            ELSE IF ~Resolves(V_np, g) THEN NameErrorOf(st, V_np)
            ELSE IF "a" \notin st.np THEN Raise(st, FALSE, N_AttributeError, M_AttributeError)
            ELSE [st EXCEPT !.out = @ \o O_one \o <<"\n">>]
      [] line = S_exit ->
            IF ~Resolves(V_SystemExit, g) THEN NameErrorOf(st, V_SystemExit)
            ELSE Raise(st, TRUE, V_SystemExit, <<>>)
      [] line = S_input ->
            IF ~Resolves(V_input, g) THEN NameErrorOf(st, V_input)
            ELSE IF stdin_line THEN [st EXCEPT !.io = @ \cup {"stdin"}]
            ELSE Raise([st EXCEPT !.io = @ \cup {"stdin"}], FALSE, N_EOFError, M_EOFError)

\* the statements from line i on, until one raises
RECURSIVE RunLines(_, _, _, _)
RunLines(lines, i, st, stdin_line) ==
    IF i > Len(lines) \/ st.status # "ok" THEN st
    ELSE RunLines(lines, i + 1, RunStatement(lines[i], st, stdin_line), stdin_line)

\* exec(code, loc) with the module attributes np_attrs of numpy:
\* the code is compiled whole (a SyntaxError runs nothing), then run
Exec(code, loc, np_attrs, stdin_line) ==
    LET lines == SplitLines(code)
        bad == {i \in 1..Len(lines) : lines[i] # <<>> /\ lines[i] \notin Statements}
        st0 == [status |-> "ok", type |-> <<>>, msg |-> <<>>, globals |-> WithBuiltins(loc),
                np |-> np_attrs, out |-> <<>>, io |-> {}]
    IN  IF bad # {}
        THEN Raise(st0, FALSE, N_SyntaxError,
                   Concat(<<M_SyntaxErrorHead, Decimal(Min(bad)), <<")">> >>))
        ELSE RunLines(lines, 1, st0, stdin_line)

\* traceback.format_exc(): header, the frames, then "Type: message"
FormatExc(r) ==
    Concat(<<T_TracebackHead, <<"<frames>">>, r.type, <<":", " ">>,
             IF r.type = N_SyntaxError THEN M_SyntaxErrorShort ELSE r.msg, <<"\n">> >>)

----------------------------------------------------------------------------
(* What the model gateway (client.chat) may answer.                        *)

\* all sequences of at most n elements of S
SegSeqs(S, n) == UNION {[1..k -> S] : k \in 0..n}

\* "\n".join(ss)
RECURSIVE JoinLines(_)
JoinLines(ss) ==
    IF ss = <<>> THEN <<>>
    ELSE IF Len(ss) = 1 THEN ss[1]
    ELSE ss[1] \o <<"\n">> \o JoinLines(Tail(ss))

ClsSegs == {T_YES, G_yes, G_No, <<" ">>, G_Y, G_es}
ClassifyResponses == {Concat(ss) : ss \in SegSeqs(ClsSegs, MaxClsSegs)}

VerSegs == {T_APPROVED, G_approved, G_Not}
VerifyResponses == {Concat(ss) : ss \in SegSeqs(VerSegs, MaxVerSegs)}

\* code bodies: statements, one per line (the empty body included)
Bodies == {JoinLines(ss) : ss \in SegSeqs(Statements, MaxStmts)}

\* responses with a python fence inside prose: around a statement, around nothing
Fenced ==
    {Concat(<<G_prose, T_FenceOpen, S_print1, T_FenceClose, <<"\n">>, G_prose>>),
     Concat(<<G_prose, T_FenceOpen, T_FenceClose>>)}

\* responses whose fence the pattern does not match: untagged, or never closed
Malformed ==
    {Concat(<<G_FenceBare, S_print1, T_FenceClose>>), Concat(<<T_FenceOpen, S_print1>>)}

\* what the gateway answers to the generation and refinement prompts
CodeResponses == Bodies \cup Fenced \cup Malformed

Questions == {"q1", "q2"}

----------------------------------------------------------------------------
(* GraphState and the merge of a node's update into it.                    *)

\* the keys class GraphState declares: the channels of StateGraph(GraphState)
GraphStateKeys ==
    {"question", "math_related", "generated_code", "verification_result",
     "refinements", "final_answer"}

EmptyDict == [k \in {} |-> TRUE]

\* a merge that keeps every key of the update, declared or not
MergeKeepingAll(state, update) ==
    [k \in DOMAIN state \cup DOMAIN update |->
        IF k \in DOMAIN update THEN update[k] ELSE state[k]]

\* the graph writes the keys of a node's update that are channels of the state
\* schema; a key the schema does not declare is not written
Merge(state, update) ==
    [k \in DOMAIN state \cup (DOMAIN update \cap GraphStateKeys) |->
        IF k \in DOMAIN update THEN update[k] ELSE state[k]]

\* state.get(key, default)
Get(state, key, default) == IF key \in DOMAIN state THEN state[key] ELSE default

----------------------------------------------------------------------------
(* Nodes: the update each node function returns.                           *)

\* a classification that looks for a refusal instead of the affirmative token
check_math_question_unless_no(state, response) ==
    LET is_math == ~Contains(<<"N", "O">>, Upper(Strip(response)))
    IN  [math_related |-> is_math]

check_math_question(state, response) ==
    LET is_math == Contains(T_YES, Upper(Strip(response)))
    IN  [math_related |-> is_math]

generate_initial_code(state, response) ==
    LET code == extract_code(response)
    IN  [generated_code |-> code]

\* a verification that looks for the token without upper-casing the response
verify_code_case_sensitive(state, response) ==
    LET feedback == response
        approved == Contains(T_APPROVED, feedback)
    IN  [verification_result |-> [approved |-> approved, feedback |-> feedback]]

verify_code(state, response) ==
    LET feedback == response
        approved == Contains(T_APPROVED, Upper(feedback))
    IN  [verification_result |-> [approved |-> approved, feedback |-> feedback]]

\* a refinement that appends the new code to the code it was given
refine_code_appending(state, response) ==
    LET new_code == extract_code(response)
    IN  [generated_code |-> Concat(<<state["generated_code"], <<"\n">>, new_code>>)]

\* a refinement that also clears the failure flag of the execution step
refine_code_clearing_flag(state, response) ==
    LET new_code == extract_code(response)
    IN  [generated_code |-> new_code, execution_failed |-> FALSE]

refine_code(state, response) ==
    LET new_code == extract_code(response)
    IN  [generated_code |-> new_code]

regular_response(state) == [final_answer |-> T_Refusal]

\* a restore placed after exec instead of in a finally clause
RestoreOnSuccessOnly(old_stdout, installed, status) ==
    IF status = "ok" THEN old_stdout ELSE installed

\* the finally clause: sys.stdout = old_stdout, on every way out of exec
RestoreStdout(old_stdout, installed, status) == old_stdout

\* except Exception: does the except clause catch what exec raised ?
Catches(status) == status = "Exception"

\* a success text that leaves the captured output out
SuccessTextWithoutOutput(code, printed_output) ==
    Concat(<<T_FinalCodeOk, code, T_FinalCodeOkEnd, T_PrintedOutput>>)

\* final_text of the success branch: the code in a fence, then the output
SuccessText(code, printed_output) ==
    Concat(<<T_FinalCodeOk, code, T_FinalCodeOkEnd, T_PrintedOutput, printed_output>>)

\* execute_code run with sys.stdout = stdout0 and numpy attributes np0.
\* escapes: the exception leaves execute_code and no update is returned.
execute_code(state, stdout0, np0, stdin_line) ==
    LET code == state["generated_code"]
        loc == InitialLoc
        old_stdout == stdout0
        r == Exec(code, loc, np0, stdin_line)
        restored == RestoreStdout(old_stdout, "output_capture", r.status)
        printed_output == Strip(r.out)
        error_message == r.msg
        stack_trace == FormatExc(r)
        updated_feedback ==
            Concat(<<T_ExecutionError, error_message, T_StackTraceFb, stack_trace>>)
        ok_text == SuccessText(code, printed_output)
        err_text ==
            Concat(<<T_FinalCodeErr, code, <<"\n", "\n">>, T_ErrorInExecution, error_message,
                     <<"\n">>, T_StackTrace, stack_trace>>)
        base == [sys_stdout |-> restored, np |-> r.np, io |-> r.io, captured |-> r.out,
                 status |-> r.status]
    IN  IF r.status = "ok"
        THEN [escapes |-> FALSE, result |-> base,
              update |-> [final_answer |-> ok_text, execution_failed |-> FALSE]]
        ELSE IF Catches(r.status)
        THEN [escapes |-> FALSE, result |-> base,
              update |-> [final_answer |-> err_text, execution_failed |-> TRUE,
                          verification_result |->
                              [approved |-> FALSE, feedback |-> updated_feedback]]]
        ELSE [escapes |-> TRUE, result |-> base, update |-> EmptyDict]

----------------------------------------------------------------------------
(* Helpers: the routing functions of the conditional edges.                *)

route_based_on_math(state) ==
    IF state["math_related"] THEN "math_pipeline" ELSE "regular_response"

\* a routing that sends every verified code to execution, approved or not
route_to_execution_always(state) == "execute_code"

\* a routing that takes the approval for a rejection
route_based_on_verification_inverted(state) ==
    IF state["verification_result"]["approved"] THEN "refine_code" ELSE "execute_code"

route_based_on_verification(state) ==
    IF state["verification_result"]["approved"] THEN "execute_code" ELSE "refine_code"

route_based_on_execution(state) ==
    IF Get(state, "execution_failed", FALSE) THEN "refine_code" ELSE "END"

----------------------------------------------------------------------------
(* The compiled graph run by one driver: one action per node, made of the  *)
(* node function, the merge of its update and the edge that follows it.    *)

VARIABLES
    state,        \* the GraphState of the current run
    pc,           \* the node the graph runs next; "idle", "END" or "RAISED"
    run,          \* number of invocations of the graph so far
    response,     \* the latest answer of the model gateway
    last_node,    \* the node that ran last in this run
    last_update,  \* the update that node returned
    ran,          \* the nodes that ran in this run
    fa_writes,    \* number of writes of final_answer in this run
    captured,     \* what output_capture held when exec was left
    exec_status,  \* how the latest exec ended: "none", "ok", "Exception", "BaseException"
    io_used,      \* the input/output capabilities the code of this run has used
    np_attrs,     \* attributes that exist on the numpy module object
    sys_stdout,   \* the stream sys.stdout refers to
    t_pc,         \* two concurrent drivers: position inside execute_code
    t_state,      \* ... their GraphState
    t_old,        \* ... their local old_stdout
    t_status,     \* ... how their exec ended
    t_printed,    \* ... the text their generated code printed
    t_answer,     \* ... the printed_output they put in the final answer
    streams,      \* the text written so far to the console and to each capture
    x_pc,         \* extract_code called on its own: "off", "call" or "done"
    x_text,       \* ... its argument
    x_result      \* ... what it returned

pipeVars == <<state, pc, run, response, last_node, last_update, ran, fa_writes,
              captured, exec_status, io_used, np_attrs>>
concVars == <<t_pc, t_state, t_old, t_status, t_printed, t_answer, streams>>
extVars == <<x_pc, x_text, x_result>>
vars == <<pipeVars, sys_stdout, concVars, extVars>>

Threads == {1, 2}

\* the output_capture buffer of a driver
CaptureOf(t) == IF t = 1 THEN "output_capture1" ELSE "output_capture2"

StreamNames == {"console"} \cup {CaptureOf(t) : t \in Threads}

ConcIdle ==
    /\ t_pc = [t \in Threads |-> "off"]
    /\ t_state = [t \in Threads |-> EmptyDict]
    /\ t_old = [t \in Threads |-> "console"]
    /\ t_status = [t \in Threads |-> "none"]
    /\ t_printed = [t \in Threads |-> <<>>]
    /\ t_answer = [t \in Threads |-> <<>>]
    /\ streams = [s \in StreamNames |-> <<>>]

ExtIdle ==
    /\ x_pc = "off"
    /\ x_text = <<>>
    /\ x_result = <<>>

PipeIdle ==
    /\ state = EmptyDict
    /\ pc = "idle"
    /\ run = 0
    /\ response = <<>>
    /\ last_node = "none"
    /\ last_update = EmptyDict
    /\ ran = {}
    /\ fa_writes = 0
    /\ captured = <<>>
    /\ exec_status = "none"
    /\ io_used = {}
    /\ np_attrs = {}

\* the module is loaded and the graph compiled; nothing has been asked yet
Init ==
    /\ PipeIdle
    /\ sys_stdout = "console"
    /\ ConcIdle
    /\ ExtIdle

\* bookkeeping shared by the node actions
Ran(node, update) ==
    /\ last_node' = node
    /\ last_update' = update
    /\ ran' = ran \cup {node}
    /\ fa_writes' = IF "final_answer" \in DOMAIN update /\ fa_writes < 2
                    THEN fa_writes + 1 ELSE fa_writes

\* graph.invoke({"question": q}): a new run starts at the entry point
Invoke(q) ==
    /\ pc \in {"idle", "END"}
    /\ run < MaxRuns
    /\ run' = run + 1
    /\ state' = Merge(EmptyDict, [question |-> q])
    /\ pc' = "check_math"
    /\ response' = <<>>
    /\ last_node' = "none"
    /\ last_update' = EmptyDict
    /\ ran' = {}
    /\ fa_writes' = 0
    /\ captured' = <<>>
    /\ exec_status' = "none"
    /\ io_used' = {}
    /\ UNCHANGED <<np_attrs, sys_stdout, concVars, extVars>>

Node_check_math ==
    /\ pc = "check_math"
    /\ \E r \in ClassifyResponses :
        LET update == check_math_question(state, r) IN
        /\ response' = r
        /\ state' = Merge(state, update)
        /\ pc' = route_based_on_math(state')
        /\ Ran("check_math", update)
    /\ UNCHANGED <<run, captured, exec_status, io_used, np_attrs, sys_stdout, concVars, extVars>>

Node_math_pipeline ==
    /\ pc = "math_pipeline"
    /\ \E r \in CodeResponses :
        LET update == generate_initial_code(state, r) IN
        /\ response' = r
        /\ state' = Merge(state, update)
        /\ pc' = "verify_code"
        /\ Ran("math_pipeline", update)
    /\ UNCHANGED <<run, captured, exec_status, io_used, np_attrs, sys_stdout, concVars, extVars>>

Node_verify_code ==
    /\ pc = "verify_code"
    /\ \E r \in VerifyResponses :
        LET update == verify_code(state, r) IN
        /\ response' = r
        /\ state' = Merge(state, update)
        /\ pc' = route_based_on_verification(state')
        /\ Ran("verify_code", update)
    /\ UNCHANGED <<run, captured, exec_status, io_used, np_attrs, sys_stdout, concVars, extVars>>

Node_refine_code ==
    /\ pc = "refine_code"
    /\ \E r \in CodeResponses :
        LET update == refine_code(state, r) IN
        /\ response' = r
        /\ state' = Merge(state, update)
        /\ pc' = "verify_code"
        /\ Ran("refine_code", update)
    /\ UNCHANGED <<run, captured, exec_status, io_used, np_attrs, sys_stdout, concVars, extVars>>

Node_execute_code ==
    /\ pc = "execute_code"
    /\ \E stdin_line \in BOOLEAN :
        LET e == execute_code(state, sys_stdout, np_attrs, stdin_line) IN
        /\ sys_stdout' = e.result.sys_stdout
        /\ np_attrs' = e.result.np
        /\ io_used' = io_used \cup e.result.io
        /\ captured' = e.result.captured
        /\ exec_status' = e.result.status
        /\ state' = Merge(state, e.update)
        /\ pc' = IF e.escapes THEN "RAISED" ELSE route_based_on_execution(state')
        /\ Ran("execute_code", e.update)
    /\ UNCHANGED <<run, response, concVars, extVars>>

Node_regular_response ==
    /\ pc = "regular_response"
    /\ LET update == regular_response(state) IN
        /\ state' = Merge(state, update)
        /\ pc' = "END"
        /\ Ran("regular_response", update)
    /\ UNCHANGED <<run, response, captured, exec_status, io_used, np_attrs, sys_stdout, concVars, extVars>>

Next ==
    \/ \E q \in Questions : Invoke(q)
    \/ Node_check_math
    \/ Node_math_pipeline
    \/ Node_verify_code
    \/ Node_refine_code
    \/ Node_execute_code
    \/ Node_regular_response

Spec == Init /\ [][Next]_vars

----------------------------------------------------------------------------
(* Two drivers in one process, each inside execute_code: the statements of *)
(* execute_code taken one at a time, interleaved in any order.             *)

\* a GraphState with which the graph reaches execute_code
AtExecute(q, code) ==
    [question |-> q, math_related |-> TRUE, generated_code |-> code,
     verification_result |-> [approved |-> TRUE, feedback |-> T_APPROVED]]

InitConc ==
    /\ PipeIdle
    /\ sys_stdout = "console"
    /\ t_pc = [t \in Threads |-> "execute_code"]
    /\ \E c1 \in Bodies, c2 \in Bodies :
        t_state = (1 :> AtExecute("q1", c1)) @@ (2 :> AtExecute("q2", c2))
    /\ t_old = [t \in Threads |-> "console"]
    /\ t_status = [t \in Threads |-> "none"]
    /\ t_printed = [t \in Threads |-> <<>>]
    /\ t_answer = [t \in Threads |-> <<>>]
    /\ streams = [s \in StreamNames |-> <<>>]
    /\ ExtIdle

concFrame == <<state, pc, run, response, last_node, last_update, ran, fa_writes,
               captured, exec_status, extVars>>

\* output_capture = io.StringIO(); old_stdout = sys.stdout
T_save(t) ==
    /\ t_pc[t] = "execute_code"
    /\ t_old' = [t_old EXCEPT ![t] = sys_stdout]
    /\ t_pc' = [t_pc EXCEPT ![t] = "saved"]
    /\ UNCHANGED <<concFrame, io_used, np_attrs, sys_stdout, t_state, t_status,
                   t_printed, t_answer, streams>>

\* sys.stdout = output_capture
T_install(t) ==
    /\ t_pc[t] = "saved"
    /\ sys_stdout' = CaptureOf(t)
    /\ t_pc' = [t_pc EXCEPT ![t] = "installed"]
    /\ UNCHANGED <<concFrame, io_used, np_attrs, t_state, t_old, t_status,
                   t_printed, t_answer, streams>>

\* exec(state["generated_code"], loc): print writes to what sys.stdout is now
T_exec(t) ==
    /\ t_pc[t] = "installed"
    /\ \E stdin_line \in BOOLEAN :
        LET r == Exec(t_state[t]["generated_code"], InitialLoc, np_attrs, stdin_line) IN
        /\ streams' = [streams EXCEPT ![sys_stdout] = @ \o r.out]
        /\ t_printed' = [t_printed EXCEPT ![t] = r.out]
        /\ t_status' = [t_status EXCEPT ![t] = r.status]
        /\ np_attrs' = r.np
        /\ io_used' = io_used \cup r.io
    /\ t_pc' = [t_pc EXCEPT ![t] = "executed"]
    /\ UNCHANGED <<concFrame, sys_stdout, t_state, t_old, t_answer>>

\* finally: sys.stdout = old_stdout
T_restore(t) ==
    /\ t_pc[t] = "executed"
    /\ sys_stdout' = RestoreStdout(t_old[t], sys_stdout, t_status[t])
    /\ t_pc' = [t_pc EXCEPT ![t] = "restored"]
    /\ UNCHANGED <<concFrame, io_used, np_attrs, t_state, t_old, t_status,
                   t_printed, t_answer, streams>>

\* printed_output = output_capture.getvalue().strip(), and the return
T_return(t) ==
    /\ t_pc[t] = "restored"
    /\ t_answer' = [t_answer EXCEPT ![t] =
                        IF t_status[t] = "ok" THEN Strip(streams[CaptureOf(t)]) ELSE <<>>]
    /\ t_pc' = [t_pc EXCEPT ![t] =
                        IF t_status[t] = "ok" \/ Catches(t_status[t]) THEN "returned" ELSE "RAISED"]
    /\ UNCHANGED <<concFrame, io_used, np_attrs, sys_stdout, t_state, t_old, t_status,
                   t_printed, streams>>

NextConc ==
    \E t \in Threads :
        \/ T_save(t)
        \/ T_install(t)
        \/ T_exec(t)
        \/ T_restore(t)
        \/ T_return(t)

SpecConc == InitConc /\ [][NextConc]_vars

----------------------------------------------------------------------------
(* extract_code on its own, applied to any bounded response text.          *)

\* a whole python block, to follow another block
G_Block2 == Concat(<<T_FenceOpen, S_assign, T_FenceClose>>)

ExtractSegs == {T_FenceOpen, T_FenceClose, G_FenceBare, S_print1, G_Block2, G_prose}

ExtractTexts == {Concat(ss) : ss \in SegSeqs(ExtractSegs, MaxExtractSegs)}

InitExtract ==
    /\ PipeIdle
    /\ sys_stdout = "console"
    /\ ConcIdle
    /\ x_pc = "call"
    /\ x_text \in ExtractTexts
    /\ x_result = <<>>

\* x_result = extract_code(x_text)
X_extract ==
    /\ x_pc = "call"
    /\ x_result' = extract_code(x_text)
    /\ x_pc' = "done"
    /\ UNCHANGED <<pipeVars, sys_stdout, concVars, x_text>>

NextExtract == X_extract

SpecExtract == InitExtract /\ [][NextExtract]_vars

----------------------------------------------------------------------------
(* Properties.                                                             *)

MathNodes == {"math_pipeline", "verify_code", "refine_code", "execute_code"}

\* C1: when the code run by execute_code raises an exception the step
\* catches, the step reports failure and the next node is refine_code.
C1_FaultRoutesToRefine ==
    (last_node = "execute_code" /\ exec_status = "Exception")
        => /\ "execution_failed" \in DOMAIN last_update
           /\ last_update["execution_failed"]
           /\ pc = "refine_code"

C3_EndOnlyAfterSuccess ==
    (pc = "END" /\ last_node = "execute_code") => exec_status = "ok"

\* the letters Y, E, S next to each other in r, each in either case
HasYesAnyCase(r) ==
    \E i \in 1..Len(r) :
        /\ i + 2 <= Len(r)
        /\ r[i] \in {"Y", "y"}
        /\ r[i + 1] \in {"E", "e"}
        /\ r[i + 2] \in {"S", "s"}

\* C4: a classification response without YES in any case makes math_related
\* false and routes to regular_response; with math_related false none of the
\* math nodes runs and the run ends with the refusal as its final answer.
C4_NonMathRefused ==
    /\ [][(pc = "check_math" /\ last_node' = "check_math" /\ ~HasYesAnyCase(response'))
            => (state'["math_related"] = FALSE /\ pc' = "regular_response")]_vars
    /\ [](("math_related" \in DOMAIN state /\ ~state["math_related"])
            => /\ ran \cap MathNodes = {}
               /\ pc \in {"regular_response", "END"}
               /\ (pc = "END" => state["final_answer"] = T_Refusal))

C4_Witness ==
    /\ pc = "END"
    /\ last_node = "regular_response"
    /\ ~HasYesAnyCase(response)
    /\ response = G_Y \o <<" ">>
    /\ state["final_answer"] = T_Refusal

\* C5: whatever the code raises, execute_code returns a failure result and
\* nothing propagates to the driver.
C5_NoFaultEscapes ==
    (last_node = "execute_code" /\ exec_status # "ok")
        => /\ pc # "RAISED"
           /\ "execution_failed" \in DOMAIN last_update
           /\ last_update["execution_failed"]

\* C6: an execute_code step leaves sys.stdout at the stream it referred to
\* before the step, and the capture buffer is never left installed.
C6_StdoutRestored ==
    /\ [][pc = "execute_code" => sys_stdout' = sys_stdout]_vars
    /\ [](sys_stdout # "output_capture")

C6_Witness ==
    /\ last_node = "execute_code"
    /\ exec_status = "BaseException"
    /\ pc = "RAISED"
    /\ sys_stdout = "console"

\* C7: when two drivers whose execute_code steps may overlap have both left
\* execute_code, each capture buffer holds exactly the text its own code
\* printed and sys.stdout is the original stream.
C7_ConcurrentCapture ==
    (\A t \in Threads : t_pc[t] \in {"returned", "RAISED"})
        => /\ \A t \in Threads : streams[CaptureOf(t)] = t_printed[t]
           /\ sys_stdout = "console"

\* C8: the code of an invocation behaves as it does in a fresh context: how
\* it ends and what it prints are what exec gives with the initial bindings
\* and an untouched numpy module.
C8_FreshContext ==
    last_node = "execute_code"
        => \E stdin_line \in BOOLEAN :
              LET fresh == Exec(state["generated_code"], InitialLoc, {}, stdin_line)
              IN  fresh.status = exec_status /\ fresh.out = captured

\* C9: generated code never uses a file, the network or interactive input.
C9_NoInputOutputCapability ==
    io_used \cap {"file", "network", "stdin"} = {}

\* C10: generated_code is a non-empty string whenever verify_code or
\* execute_code is about to run.
C10_CodeNeverEmpty ==
    pc \in {"verify_code", "execute_code"}
        => ("generated_code" \in DOMAIN state /\ state["generated_code"] # <<>>)

\* the letters of APPROVED next to each other in r, each in either case
HasApprovedAnyCase(r) ==
    \E i \in 1..Len(r) :
        /\ i + 7 <= Len(r)
        /\ r[i] \in {"A", "a"}
        /\ r[i + 1] \in {"P", "p"}
        /\ r[i + 2] \in {"P", "p"}
        /\ r[i + 3] \in {"R", "r"}
        /\ r[i + 4] \in {"O", "o"}
        /\ r[i + 5] \in {"V", "v"}
        /\ r[i + 6] \in {"E", "e"}
        /\ r[i + 7] \in {"D", "d"}

\* C11: the node that follows verify_code is decided by the response of that
\* verify_code step alone: execute_code when it carries the approval token,
\* refine_code when it does not, whatever was verified or refined before.
C11_RouteOnLatestVerification ==
    [][pc = "verify_code"
        => /\ state'["verification_result"]["approved"] = HasApprovedAnyCase(response')
           /\ pc' = IF HasApprovedAnyCase(response') THEN "execute_code" ELSE "refine_code"]_vars

C11_Witness ==
    /\ pc = "execute_code"
    /\ last_node = "verify_code"
    /\ "refine_code" \in ran
    /\ response = G_approved

\* three grave accents: a code fence of any kind
Ticks == <<Backtick, Backtick, Backtick>>

\* a fenced block of any tag: the first fence, the end of its line, and the
\* first closing fence at the start of a line after that
FenceLineEnds(text) ==
    {k \in 1..Len(text) :
        /\ text[k] = "\n"
        /\ \E i \in 1..k : MatchAt(Ticks, text, i) /\ i + Len(Ticks) <= k
                             /\ \A h \in 1..(i - 1) : ~MatchAt(Ticks, text, h)}

AnyFenceCloses(text) ==
    {j \in 1..Len(text) : MatchAt(T_FenceClose, text, j) /\ FenceLineEnds(text) # {}
                              /\ j >= Min(FenceLineEnds(text))}

HasFence(text) == AnyFenceCloses(text) # {}

AnyFenceContent(text) ==
    SubSeq(text, Min(FenceLineEnds(text)) + 1, Min(AnyFenceCloses(text)) - 1)

\* a block the pattern accepts: a python opening fence and a closing fence after it
HasPythonFence(text) ==
    \E i, j \in 1..Len(text) :
        /\ MatchAt(T_FenceOpen, text, i)
        /\ MatchAt(T_FenceClose, text, j)
        /\ j >= i + Len(T_FenceOpen)

\* C12 as stated: whenever the text holds a fenced block, of whatever tag,
\* extract_code returns the content of the first one without its fences.
C12_AnyFenceContent ==
    (x_pc = "done" /\ HasFence(x_text)) => x_result = AnyFenceContent(x_text)

\* C12 amended: whenever the text holds a python opening fence with a closing
\* fence after it, extract_code returns what stands between the first python
\* opening fence and the nearest closing fence that follows it.
C12_PythonFenceContent ==
    (x_pc = "done" /\ HasPythonFence(x_text))
        => \E i \in 1..Len(x_text) :
              /\ MatchAt(Concat(<<T_FenceOpen, x_result, T_FenceClose>>), x_text, i)
              /\ ~Contains(T_FenceClose, x_result)
              /\ \A k \in 1..(i - 1) : ~MatchAt(T_FenceOpen, x_text, k)

C12_Witness ==
    /\ x_pc = "done"
    /\ x_text = Concat(<<T_FenceOpen, S_print1, T_FenceClose, G_Block2>>)
    /\ x_result = S_print1

\* C13: a text without a fenced block is returned unchanged.
C13_NoFenceIdentity ==
    (x_pc = "done" /\ ~HasFence(x_text)) => x_result = x_text

C13_Witness ==
    /\ x_pc = "done"
    /\ x_text = Concat(<<G_prose, T_FenceOpen, S_print1>>)
    /\ ~HasFence(x_text)
    /\ x_result = x_text

\* C14: after an execution that raised, verification_result holds approved =
\* FALSE and a feedback made of the error message and the stack trace, and
\* the node that runs next is refine_code, which reads that feedback.
C14_DiagnosticsReachRefine ==
    (last_node = "execute_code" /\ exec_status = "Exception")
        => /\ ~state["verification_result"]["approved"]
           /\ Contains(T_ExecutionError, state["verification_result"]["feedback"])
           /\ Contains(T_StackTraceFb, state["verification_result"]["feedback"])
           /\ pc = "refine_code"

\* C15: a refine_code step sets generated_code to the code extracted from the
\* new response and to nothing else, leaves every other key of the state as
\* it was (verification_result, math_related, question, and final_answer,
\* which stays absent), and is followed by verify_code.
C15_RefineReplacesCode ==
    [][pc = "refine_code"
        => /\ state'["generated_code"] = extract_code(response')
           /\ DOMAIN state' = DOMAIN state
           /\ \A k \in DOMAIN state \ {"generated_code"} : state'[k] = state[k]
           /\ pc' = "verify_code"]_vars

\* a refinement has run after a rejection and stored the non-empty code it
\* extracted from its response
C15_Witness ==
    /\ last_node = "refine_code"
    /\ pc = "verify_code"
    /\ state["generated_code"] = extract_code(response)
    /\ state["generated_code"] # <<>>
    /\ ~state["verification_result"]["approved"]
    /\ "final_answer" \notin DOMAIN state

\* C16: on the math path a run does not stop as long as no execution has
\* succeeded: it is at neither END nor an escaped exception, so a node is
\* still to run; and a run never stops otherwise than at END.
C16_RunsUntilSuccess ==
    /\ ("math_pipeline" \in ran /\ exec_status # "ok")
            => pc \in {"verify_code", "refine_code", "execute_code"}
    /\ pc # "RAISED"

\* C17: within a run question keeps the value the run was created with;
\* math_related is in the update of check_math_question and of no other
\* node, that node runs once in a run, and the value it wrote stays; the
\* execution_failed flag is in the update of execute_code and of no other
\* node.
C17_SingleWriters ==
    /\ [][run' = run => state'["question"] = state["question"]]_vars
    /\ []("math_related" \in DOMAIN last_update <=> last_node = "check_math")
    /\ []("math_related" \in DOMAIN state <=> "check_math" \in ran)
    /\ [](pc = "check_math" => "check_math" \notin ran)
    /\ [][(run' = run /\ "math_related" \in DOMAIN state)
            => state'["math_related"] = state["math_related"]]_vars
    /\ []("execution_failed" \in DOMAIN last_update => last_node = "execute_code")
    /\ [](last_node = "execute_code" /\ pc # "RAISED"
            => "execution_failed" \in DOMAIN last_update)

\* a run in which every kind of node of the math path has run, the execution
\* step last, with the flag in its update
C17_Witness ==
    /\ last_node = "execute_code"
    /\ "execution_failed" \in DOMAIN last_update
    /\ {"check_math", "math_pipeline", "verify_code", "refine_code"} \subseteq ran
    /\ state["math_related"]
    /\ run = 2

\* text t ends with text s
EndsWith(t, s) ==
    /\ Len(s) <= Len(t)
    /\ MatchAt(s, t, Len(t) - Len(s) + 1)

\* C18 as stated: after an execution that did not raise, final_answer contains
\* the executed code and the output captured during the execution, the
\* failure flag of the step is false and the run is at END.
C18_AnswerHoldsCapturedOutput ==
    (last_node = "execute_code" /\ exec_status = "ok")
        => /\ Contains(state["generated_code"], state["final_answer"])
           /\ Contains(captured, state["final_answer"])
           /\ ~last_update["execution_failed"]
           /\ pc = "END"

\* C18, amended: after an execution that did not raise, final_answer contains
\* the executed code and ends with the captured output stripped of the white
\* space around it, the failure flag of the step is false and reads false
\* from the state, and the run is at END.
C18_AnswerHoldsStrippedOutput ==
    (last_node = "execute_code" /\ exec_status = "ok")
        => /\ Contains(state["generated_code"], state["final_answer"])
           /\ EndsWith(state["final_answer"], Strip(captured))
           /\ ~last_update["execution_failed"]
           /\ ~Get(state, "execution_failed", FALSE)
           /\ pc = "END"

\* an execution that printed something has succeeded
C18_Witness ==
    /\ last_node = "execute_code"
    /\ exec_status = "ok"
    /\ Strip(captured) # <<>>
    /\ captured # Strip(captured)
    /\ pc = "END"

\* C19: execute_code is entered only by a verify_code step; when it is about
\* to run, the latest node was verify_code, the response of that step carries
\* the approval token and is the stored feedback, and that step left
\* generated_code as it was, so the code executed is the code approved.
C19_ExecutedCodeIsApproved ==
    /\ [][pc' = "execute_code" => pc = "verify_code"]_vars
    /\ [][pc = "verify_code" => state'["generated_code"] = state["generated_code"]]_vars
    /\ [](pc = "execute_code"
            => /\ last_node = "verify_code"
               /\ state["verification_result"]["approved"]
               /\ state["verification_result"]["feedback"] = response
               /\ HasApprovedAnyCase(response))

\* a refined code has been approved and is about to be executed
C19_Witness ==
    /\ pc = "execute_code"
    /\ last_node = "verify_code"
    /\ "refine_code" \in ran
    /\ state["verification_result"]["approved"]
    /\ state["generated_code"] = S_print1

\* C20: whenever refine_code is about to run, verification_result is in the
\* state and its approved field is false.
C20_RefineOnlyAfterRejection ==
    pc = "refine_code"
        => /\ "verification_result" \in DOMAIN state
           /\ ~state["verification_result"]["approved"]

\* refine_code is about to run a second time in a run
C20_Witness ==
    /\ pc = "refine_code"
    /\ last_node = "verify_code"
    /\ "refine_code" \in ran
    /\ ~HasApprovedAnyCase(state["verification_result"]["feedback"])
====
